---- MODULE Spec2Model ----
(***************************************************************************)
(* RaDiceX (games/RaDiceX/src/lib.rs): a Scrypto blueprint holding a vault *)
(* of XRD, minting integer-id Ticket NFTs whose level moves with dice      *)
(* rounds, and gating two methods behind an admin badge.                   *)
(*                                                                         *)
(* Every method call is one atomic step (a Radix transaction either        *)
(* commits or panics and rolls back), so each action below is a whole      *)
(* method, and a panicking call changes nothing but the record of the      *)
(* call itself (the variable last).                                        *)
(*                                                                         *)
(* Amounts are Decimals in the code; here they are integers counted in     *)
(* tenths of one XRD, so 0.9 is 9, 1 is 10 and 5 is 50.                    *)
(***************************************************************************)
EXTENDS Integers, Sequences, FiniteSets, TLC

VARIABLES
    radix_vault,        \* balance of Radicex.radix_vault, in tenths
    nrNFTsgenerated,    \* Radicex.nrNFTsgenerated, the id counter
    tickets,            \* NFT data of the ticket resource: id -> Ticket
    issued,             \* history: the ids that mints have assigned so far
    last                \* the most recent call: its inputs and its outcome

vars == <<radix_vault, nrNFTsgenerated, tickets, issued, last>>

----------------------------------------------------------------------------
(* Bounds of the model *)

\* width in bits of the id counter of the model (u64 in the code)
IdBits == 2
\* play_round draws from 0..MaxRandom in SpecRound (u128 in the code)
MaxRandom == 8
\* the die methods draw from 0..MaxDiceRandom in SpecDice
MaxDiceRandom == 31
\* the vault balance is kept at or below MaxVault tenths in Spec and SpecMint
MaxVault == 60
\* the vault balance is kept at or below MaxRoundVault tenths in SpecRound
MaxRoundVault == 19
\* at most MaxLive tickets exist at once in SpecMint
MaxLive == 2

----------------------------------------------------------------------------
(* Program constants *)

\* dec!("1"), the price of a ticket
TicketPrice == 10
\* dec!("0.9"), the price of a reinitialisation
ReinitPrice == 9
\* dec!("5"), the prize
redeem_amount == 50
\* level of a new or reinitialised ticket
StartLevel == 10
\* the redeemable level
TopLevel == 25
\* mask of the three low bits
GroupMask == 8
\* the shift random >> 4, as a divisor
GroupShift == 16
\* faces of the die
Faces == 6
\* the tie-break subtracts 4
TieOffset == 4
\* bits of a draw (u128)
DrawWidth == 128

\* the number of values of the id counter
IdRange == 2 ^ IdBits

\* resource addresses
RADIX_TOKEN == "xrd"
my_non_fungible_ticket == "ticket"
OtherResource == "other"

\* what a caller presents to the access check
AdminBadge == "admin"
NoBadge == "none"
Badges == {AdminBadge, NoBadge}

----------------------------------------------------------------------------
(* Access rules *)

\* mutant of AccessRuleOf: the rule of roll_dice is missing
AccessRuleOfNoDiceRule(method) ==
    CASE method = "admin_ticket" -> "admin"
      [] method = "withdrawal_all" -> "admin"
      [] OTHER -> "allow_all"

\* mutant of AccessRuleOf: the rule of withdrawal_all is missing
AccessRuleOfNoWithdrawalRule(method) ==
    CASE method = "admin_ticket" -> "admin"
      [] method = "roll_dice" -> "deny_all"
      [] OTHER -> "allow_all"

\* the method authorisation set in instantiate
AccessRuleOf(method) ==
    CASE method = "admin_ticket" -> "admin"
      [] method = "withdrawal_all" -> "admin"
      [] method = "roll_dice" -> "deny_all"
      [] OTHER -> "allow_all"

\* whether an external call of method by a caller presenting badge passes
Authorized(method, badge) ==
    CASE AccessRuleOf(method) = "allow_all" -> TRUE
      [] AccessRuleOf(method) = "admin" -> badge = AdminBadge
      [] OTHER -> FALSE

----------------------------------------------------------------------------
(* Dice *)

\* (random % 6) + 1, the body of roll_dice and roll_dice_old
ModuloDie(random) == (random % Faces) + 1

\* the inner while loop of roll_dice_alt on one draw: the die, or 0 when
\* the loop ends without returning and a fresh draw is taken
RECURSIVE ScanDraw(_)
ScanDraw(random) ==
    IF random > 0
    THEN LET myval == random % GroupMask
         IN  IF myval < Faces
             THEN myval + 1
             ELSE ScanDraw(random \div GroupShift)
    ELSE 0

\* roll_dice as play_round calls it (a call inside the component is not
\* subject to the access rules)
roll_dice(random) == ModuloDie(random)

----------------------------------------------------------------------------
(* Ticket data *)

NewTicket == [level |-> StartLevel,
              last_throw |-> <<"New Ticket, no play history">>]

\* format!("House {}, Player {}, New Lvl {}({:+})", ...) as its fields
ThrowString(house_die, player_die, newlevel, diff_of_dice) ==
    <<"House", house_die, "Player", player_die, "New Lvl", newlevel, diff_of_dice>>

\* mutant of DiffOfDice: the tie-break subtracts 3
DiffOfDiceTieThree(house_die, player_die) ==
    IF player_die - house_die = 0
    THEN player_die - 3
    ELSE player_die - house_die

\* mutant of DiffOfDice: a tie leaves the difference at 0
DiffOfDiceNoTie(house_die, player_die) == player_die - house_die

\* the difference of the dice with the tie-break of play_round
DiffOfDice(house_die, player_die) ==
    IF player_die - house_die = 0
    THEN player_die - TieOffset
    ELSE player_die - house_die

\* mutant of ClampLevel: the upper clamp is missing
ClampLevelNoTop(newlevel) ==
    IF newlevel < 0 THEN 0 ELSE newlevel

\* the clamp of play_round
ClampLevel(newlevel) ==
    IF newlevel < 0 THEN 0
    ELSE IF newlevel > TopLevel THEN TopLevel
    ELSE newlevel

\* the ticket data play_round writes, from the level and the two dice.
\* level is an i8 in 1..24 and the difference is in -5..5: no overflow.
ResolveRound(level, house_die, player_die) ==
    LET diff_of_dice == DiffOfDice(house_die, player_die)
        newlevel == ClampLevel(level + diff_of_dice)
    IN  [level |-> newlevel,
         last_throw |-> ThrowString(house_die, player_die, newlevel, diff_of_dice)]

----------------------------------------------------------------------------
(* Calls *)

NoProof == [res |-> "", ids |-> {}]
NoBucket == [res |-> "", amt |-> 0, ids |-> {}]

XrdBucket(amt) == [res |-> RADIX_TOKEN, amt |-> amt, ids |-> {}]
NftBucket(res, ids) == [res |-> res, amt |-> Cardinality(ids), ids |-> ids]
Proof(res, ids) == [res |-> res, ids |-> ids]

\* amount of a proof or bucket of non-fungibles
ProofAmount(proof) == Cardinality(proof.ids)

\* the record of a call: method, caller's badge, inputs, outcome; ret is
\* the sequence of values the call returns
Call(op, badge, proof, bucket, amount, draws, ok, err, ret) ==
    [op |-> op, badge |-> badge, proof |-> proof, bucket |-> bucket,
     amount |-> amount, draws |-> draws, ok |-> ok, err |-> err, ret |-> ret]

\* a call that panics: the transaction is rolled back
Abort(op, badge, proof, bucket, amount, err) ==
    /\ last' = Call(op, badge, proof, bucket, amount, <<>>, FALSE, err, <<>>)
    /\ UNCHANGED <<radix_vault, nrNFTsgenerated, tickets, issued>>

Init ==
    /\ radix_vault = 0
    /\ nrNFTsgenerated = 0
    /\ tickets = <<>>
    /\ issued = {}
    /\ last = Call("instantiate", NoBadge, NoProof, NoBucket, 0, <<>>, TRUE, "", <<>>)

----------------------------------------------------------------------------
(* Panic conditions: the message of the first failing assertion, or "" *)

\* validate_proof(ValidateResourceAddress(my_non_fungible_ticket))
ValidProof(proof) == proof.res = my_non_fungible_ticket

\* mutant of LocalId: the lowest existing id, whatever the proof holds
LocalIdLowest(proof) ==
    CHOOSE i \in DOMAIN tickets : \A j \in DOMAIN tickets : i <= j

\* non_fungible_local_id() of a proof of one non-fungible
LocalId(proof) == CHOOSE i \in proof.ids : TRUE

\* mutant of DepositErr: >= in place of >
DepositErrNonStrict(amount, deposit) ==
    IF deposit.res # RADIX_TOKEN
    THEN "The Buy-in can only be done with Radix tokens"
    ELSE IF ~(deposit.amt >= amount)
    THEN "There are not enough tokens in your account"
    ELSE ""

\* the assertions of deposit
DepositErr(amount, deposit) ==
    IF deposit.res # RADIX_TOKEN
    THEN "The Buy-in can only be done with Radix tokens"
    ELSE IF ~(deposit.amt > amount)
    THEN "There are not enough tokens in your account"
    ELSE ""

\* the assertions of buy_ticket
BuyTicketErr(buyin) ==
    IF buyin.res # RADIX_TOKEN
    THEN "The Buy-in can only be done with Radix tokens"
    ELSE IF buyin.amt < TicketPrice
    THEN "Not enough XRD supplied"
    ELSE ""

\* mutant of ReinitTicketErr: a payment of exactly 0.9 is refused
ReinitTicketErrStrictPrice(NFTTicket, buyin) ==
    IF buyin.res # RADIX_TOKEN
    THEN "The Buy-in can only be done with Radix tokens"
    ELSE IF buyin.amt <= ReinitPrice
    THEN "Not enough XRD supplied"
    ELSE IF ProofAmount(NFTTicket) # 1
    THEN "Only one (1) ticket per call is supported"
    ELSE IF ~ValidProof(NFTTicket)
    THEN "invalid proof"
    ELSE IF tickets[LocalId(NFTTicket)].level # 0
    THEN "Level not 0, Ticket still playable"
    ELSE ""

\* the assertions of reinit_ticket, in the order of the code
ReinitTicketErr(NFTTicket, buyin) ==
    IF buyin.res # RADIX_TOKEN
    THEN "The Buy-in can only be done with Radix tokens"
    ELSE IF buyin.amt < ReinitPrice
    THEN "Not enough XRD supplied"
    ELSE IF ProofAmount(NFTTicket) # 1
    THEN "Only one (1) ticket per call is supported"
    ELSE IF ~ValidProof(NFTTicket)
    THEN "invalid proof"
    ELSE IF tickets[LocalId(NFTTicket)].level # 0
    THEN "Level not 0, Ticket still playable"
    ELSE ""

\* mutant of RedeemPrizeErr: the check of the level is missing
RedeemPrizeErrNoLevel(NFTTicket) ==
    IF ~(redeem_amount <= radix_vault)
    THEN "Not enough funds in the vault to pay prize money"
    ELSE IF ProofAmount(NFTTicket) # 1
    THEN "Only one (1) ticket per call is supported"
    ELSE IF ~ValidProof(NFTTicket)
    THEN "invalid proof"
    ELSE ""

\* mutant of RedeemPrizeErr: the vault is only checked for not being empty
RedeemPrizeErrNotEmpty(NFTTicket) ==
    IF ~(0 < radix_vault)
    THEN "Not enough funds in the vault to pay prize money"
    ELSE IF ProofAmount(NFTTicket) # 1
    THEN "Only one (1) ticket per call is supported"
    ELSE IF ~ValidProof(NFTTicket)
    THEN "invalid proof"
    ELSE IF tickets[LocalId(NFTTicket)].level # TopLevel
    THEN "Level not 25, Ticket not redeemable"
    ELSE ""

\* mutant of RedeemPrizeErr: the check of the vault balance is missing
RedeemPrizeErrNoFunds(NFTTicket) ==
    IF ProofAmount(NFTTicket) # 1
    THEN "Only one (1) ticket per call is supported"
    ELSE IF ~ValidProof(NFTTicket)
    THEN "invalid proof"
    ELSE IF tickets[LocalId(NFTTicket)].level # TopLevel
    THEN "Level not 25, Ticket not redeemable"
    ELSE ""

\* the assertions of redeem_prize, in the order of the code
RedeemPrizeErr(NFTTicket) ==
    IF ~(redeem_amount <= radix_vault)
    THEN "Not enough funds in the vault to pay prize money"
    ELSE IF ProofAmount(NFTTicket) # 1
    THEN "Only one (1) ticket per call is supported"
    ELSE IF ~ValidProof(NFTTicket)
    THEN "invalid proof"
    ELSE IF tickets[LocalId(NFTTicket)].level # TopLevel
    THEN "Level not 25, Ticket not redeemable"
    ELSE ""

\* mutant of PlayRoundErr: the check of the proof's amount is missing
PlayRoundErrNoAmount(NFTTicket) ==
    IF ~ValidProof(NFTTicket)
    THEN "invalid proof"
    ELSE IF tickets[LocalId(NFTTicket)].level = TopLevel
    THEN "Ticket Level = 25, Ticket not playable"
    ELSE IF tickets[LocalId(NFTTicket)].level = 0
    THEN "Ticket Level = 0, Ticket not playable"
    ELSE ""

\* mutant of PlayRoundErr: the check of level 0 is missing
PlayRoundErrNoZero(NFTTicket) ==
    IF ProofAmount(NFTTicket) # 1
    THEN "Only one (1) ticket per call is supported"
    ELSE IF ~ValidProof(NFTTicket)
    THEN "invalid proof"
    ELSE IF tickets[LocalId(NFTTicket)].level = TopLevel
    THEN "Ticket Level = 25, Ticket not playable"
    ELSE ""

\* the assertions of play_round, in the order of the code
PlayRoundErr(NFTTicket) ==
    IF ProofAmount(NFTTicket) # 1
    THEN "Only one (1) ticket per call is supported"
    ELSE IF ~ValidProof(NFTTicket)
    THEN "invalid proof"
    ELSE IF tickets[LocalId(NFTTicket)].level = TopLevel
    THEN "Ticket Level = 25, Ticket not playable"
    ELSE IF tickets[LocalId(NFTTicket)].level = 0
    THEN "Ticket Level = 0, Ticket not playable"
    ELSE ""

\* the assertions of burn_ticket
BurnTicketErr(NFTTicket) ==
    IF NFTTicket.res # my_non_fungible_ticket
    THEN "The supplied bucket does not contain the correct Ticket address"
    ELSE IF NFTTicket.amt = 0
    THEN "The supplied bucket is empty"
    ELSE IF NFTTicket.amt # 1
    THEN "Only one (1) ticket per call is supported"
    ELSE ""

\* nrNFTsgenerated.wrapping_add(1), at the width of the model
NextId(n) == (n + 1) % IdRange

\* mint_non_fungible panics on an id that exists
MintErr == IF NextId(nrNFTsgenerated) \in DOMAIN tickets
           THEN "NonFungibleAlreadyExists" ELSE ""

----------------------------------------------------------------------------
(* Methods *)

\* mutant of deposit: the whole bucket is put into the vault
deposit_whole_bucket(badge, amount, bucket) ==
    LET err == IF ~Authorized("deposit", badge) THEN "Unauthorized"
               ELSE DepositErr(amount, bucket)
    IN  IF err # ""
        THEN Abort("deposit", badge, NoProof, bucket, amount, err)
        ELSE /\ radix_vault' = radix_vault + bucket.amt
             /\ UNCHANGED <<nrNFTsgenerated, tickets, issued>>
             /\ last' = Call("deposit", badge, NoProof, bucket, amount, <<>>,
                             TRUE, "", <<XrdBucket(0)>>)

deposit(badge, amount, bucket) ==
    LET err == IF ~Authorized("deposit", badge) THEN "Unauthorized"
               ELSE DepositErr(amount, bucket)
    IN  IF err # ""
        THEN Abort("deposit", badge, NoProof, bucket, amount, err)
        ELSE /\ radix_vault' = radix_vault + amount
             /\ UNCHANGED <<nrNFTsgenerated, tickets, issued>>
             /\ last' = Call("deposit", badge, NoProof, bucket, amount, <<>>,
                             TRUE, "", <<XrdBucket(bucket.amt - amount)>>)

withdrawal_all(badge) ==
    IF ~Authorized("withdrawal_all", badge)
    THEN Abort("withdrawal_all", badge, NoProof, NoBucket, 0, "Unauthorized")
    ELSE /\ radix_vault' = 0
         /\ UNCHANGED <<nrNFTsgenerated, tickets, issued>>
         /\ last' = Call("withdrawal_all", badge, NoProof, NoBucket, 0, <<>>,
                         TRUE, "", <<XrdBucket(radix_vault)>>)

reinit_ticket(badge, NFTTicket, buyin) ==
    LET err == IF ~Authorized("reinit_ticket", badge) THEN "Unauthorized"
               ELSE ReinitTicketErr(NFTTicket, buyin)
        nft_id == LocalId(NFTTicket)
    IN  IF err # ""
        THEN Abort("reinit_ticket", badge, NFTTicket, buyin, 0, err)
        ELSE /\ radix_vault' = radix_vault + ReinitPrice
             /\ tickets' = [tickets EXCEPT ![nft_id] =
                    [level |-> StartLevel,
                     last_throw |-> <<"Just reinitialized the Ticket">>]]
             /\ UNCHANGED <<nrNFTsgenerated, issued>>
             /\ last' = Call("reinit_ticket", badge, NFTTicket, buyin, 0, <<>>,
                             TRUE, "", <<XrdBucket(buyin.amt - ReinitPrice)>>)

admin_ticket(badge) ==
    IF ~Authorized("admin_ticket", badge)
    THEN Abort("admin_ticket", badge, NoProof, NoBucket, 0, "Unauthorized")
    ELSE IF MintErr # ""
    THEN Abort("admin_ticket", badge, NoProof, NoBucket, 0, MintErr)
    ELSE /\ nrNFTsgenerated' = NextId(nrNFTsgenerated)
         /\ tickets' = (NextId(nrNFTsgenerated) :> NewTicket) @@ tickets
         /\ issued' = issued \cup {NextId(nrNFTsgenerated)}
         /\ UNCHANGED radix_vault
         /\ last' = Call("admin_ticket", badge, NoProof, NoBucket, 0, <<>>, TRUE, "",
                         <<NftBucket(my_non_fungible_ticket, {NextId(nrNFTsgenerated)})>>)

\* buy_ticket calls self.admin_ticket() directly, past the access rules
buy_ticket(badge, buyin) ==
    LET err == IF ~Authorized("buy_ticket", badge) THEN "Unauthorized"
               ELSE IF BuyTicketErr(buyin) # "" THEN BuyTicketErr(buyin)
               ELSE MintErr
    IN  IF err # ""
        THEN Abort("buy_ticket", badge, NoProof, buyin, 0, err)
        ELSE /\ nrNFTsgenerated' = NextId(nrNFTsgenerated)
             /\ tickets' = (NextId(nrNFTsgenerated) :> NewTicket) @@ tickets
             /\ issued' = issued \cup {NextId(nrNFTsgenerated)}
             /\ radix_vault' = radix_vault + TicketPrice
             /\ last' = Call("buy_ticket", badge, NoProof, buyin, 0, <<>>, TRUE, "",
                          <<NftBucket(my_non_fungible_ticket, {NextId(nrNFTsgenerated)}),
                            XrdBucket(buyin.amt - TicketPrice)>>)

\* mutant of redeem_prize: the level is left at 25
redeem_prize_keep_level(badge, NFTTicket) ==
    LET err == IF ~Authorized("redeem_prize", badge) THEN "Unauthorized"
               ELSE RedeemPrizeErr(NFTTicket)
        nft_id == LocalId(NFTTicket)
    IN  IF err # ""
        THEN Abort("redeem_prize", badge, NFTTicket, NoBucket, 0, err)
        ELSE /\ tickets' = [tickets EXCEPT ![nft_id] =
                    [level |-> TopLevel,
                     last_throw |-> <<"Just redeemed a level 25 Ticket">>]]
             /\ radix_vault' = radix_vault - redeem_amount
             /\ UNCHANGED <<nrNFTsgenerated, issued>>
             /\ last' = Call("redeem_prize", badge, NFTTicket, NoBucket, 0, <<>>,
                             TRUE, "", <<XrdBucket(redeem_amount)>>)

redeem_prize(badge, NFTTicket) ==
    LET err == IF ~Authorized("redeem_prize", badge) THEN "Unauthorized"
               ELSE RedeemPrizeErr(NFTTicket)
        nft_id == LocalId(NFTTicket)
    IN  IF err # ""
        THEN Abort("redeem_prize", badge, NFTTicket, NoBucket, 0, err)
        ELSE /\ tickets' = [tickets EXCEPT ![nft_id] =
                    [level |-> 0,
                     last_throw |-> <<"Just redeemed a level 25 Ticket">>]]
             /\ radix_vault' = radix_vault - redeem_amount
             /\ UNCHANGED <<nrNFTsgenerated, issued>>
             /\ last' = Call("redeem_prize", badge, NFTTicket, NoBucket, 0, <<>>,
                             TRUE, "", <<XrdBucket(redeem_amount)>>)

\* random1 and random2 are the two Runtime::generate_uuid() results
play_round(badge, NFTTicket, random1, random2) ==
    LET err == IF ~Authorized("play_round", badge) THEN "Unauthorized"
               ELSE PlayRoundErr(NFTTicket)
        nft_id == LocalId(NFTTicket)
        house_die == roll_dice(random1)
        player_die == roll_dice(random2)
    IN  IF err # ""
        THEN Abort("play_round", badge, NFTTicket, NoBucket, 0, err)
        ELSE /\ tickets' = [tickets EXCEPT ![nft_id] =
                    ResolveRound(tickets[nft_id].level, house_die, player_die)]
             /\ UNCHANGED <<radix_vault, nrNFTsgenerated, issued>>
             /\ last' = Call("play_round", badge, NFTTicket, NoBucket, 0,
                             <<random1, random2>>, TRUE, "", <<>>)

burn_ticket(badge, NFTTicket) ==
    LET err == IF ~Authorized("burn_ticket", badge) THEN "Unauthorized"
               ELSE BurnTicketErr(NFTTicket)
    IN  IF err # ""
        THEN Abort("burn_ticket", badge, NoProof, NFTTicket, 0, err)
        ELSE /\ tickets' = [i \in DOMAIN tickets \ NFTTicket.ids |-> tickets[i]]
             /\ UNCHANGED <<radix_vault, nrNFTsgenerated, issued>>
             /\ last' = Call("burn_ticket", badge, NoProof, NFTTicket, 0, <<>>,
                             TRUE, "", <<>>)

\* an external call of roll_dice: the access rule is deny_all
roll_dice_call(badge, random) ==
    IF ~Authorized("roll_dice", badge)
    THEN Abort("roll_dice", badge, NoProof, NoBucket, 0, "Unauthorized")
    ELSE /\ UNCHANGED <<radix_vault, nrNFTsgenerated, tickets, issued>>
         /\ last' = Call("roll_dice", badge, NoProof, NoBucket, 0, <<random>>,
                         TRUE, "", <<roll_dice(random)>>)

roll_dice_old(badge, random) ==
    IF ~Authorized("roll_dice_old", badge)
    THEN Abort("roll_dice_old", badge, NoProof, NoBucket, 0, "Unauthorized")
    ELSE /\ UNCHANGED <<radix_vault, nrNFTsgenerated, tickets, issued>>
         /\ last' = Call("roll_dice_old", badge, NoProof, NoBucket, 0, <<random>>,
                         TRUE, "", <<ModuloDie(random)>>)

\* draws are the successive Runtime::generate_uuid() results of the outer
\* loop: every draw but the last is used up without a die
roll_dice_alt(badge, draws) ==
    IF ~Authorized("roll_dice_alt", badge)
    THEN Abort("roll_dice_alt", badge, NoProof, NoBucket, 0, "Unauthorized")
    ELSE /\ \A k \in 1 .. (Len(draws) - 1) : ScanDraw(draws[k]) = 0
         /\ ScanDraw(draws[Len(draws)]) # 0
         /\ UNCHANGED <<radix_vault, nrNFTsgenerated, tickets, issued>>
         /\ last' = Call("roll_dice_alt", badge, NoProof, NoBucket, 0, draws,
                         TRUE, "", <<ScanDraw(draws[Len(draws)])>>)

----------------------------------------------------------------------------
(* Inputs of the calls *)

\* the draws of SpecRound: they give every die, and the draws 0, 6, 7, 8
\* on which roll_dice and roll_dice_alt part
Randoms == 0 .. MaxRandom

\* the draws of SpecDice
DiceRandoms == 0 .. MaxDiceRandom

\* the draws of Spec: they give the dice 1 and 6
SpecDraws == {0, 5}

\* buckets a caller pays with: below both prices, exactly 0.9, exactly 1,
\* 1.5, and a bucket of another resource
PayBuckets == {XrdBucket(a) : a \in {5, 9, 10, 15}}
                 \cup {[res |-> OtherResource, amt |-> 10, ids |-> {}]}

\* deposit is called for the amount of one prize, with a bucket holding
\* less, as much, more, or another resource
DepositAmounts == {redeem_amount}
DepositBuckets == {XrdBucket(a) : a \in {10, 50, 60}}
                     \cup {[res |-> OtherResource, amt |-> 60, ids |-> {}]}

\* proofs of one existing ticket
TicketProofs == {Proof(my_non_fungible_ticket, {i}) : i \in DOMAIN tickets}

\* proofs that are rejected: of two existing tickets, of one or two
\* non-fungibles of another resource
BadProofs == {Proof(my_non_fungible_ticket, S) :
                  S \in {T \in SUBSET DOMAIN tickets : Cardinality(T) = 2}}
                \cup {Proof(OtherResource, {0}), Proof(OtherResource, {0, 1})}

\* reinit_ticket inputs: every payment with a proof of one ticket, the
\* exact payment with a rejected proof
ReinitInputs == (TicketProofs \X PayBuckets)
                   \cup (BadProofs \X {XrdBucket(ReinitPrice)})

\* buckets a caller can present to burn_ticket: none, one or two of the
\* existing tickets, or a non-fungible of another resource
NftBuckets == {NftBucket(my_non_fungible_ticket, S) :
                   S \in {T \in SUBSET DOMAIN tickets : Cardinality(T) <= 2}}
                 \cup {NftBucket(OtherResource, {0})}

----------------------------------------------------------------------------
(* Spec: the life of the first ticket, with every method of the component *)

\* Spec and SpecRound follow the first ticket only
FirstMint == nrNFTsgenerated = 0

Next ==
    \/ \E a \in DepositAmounts, d \in DepositBuckets :
          /\ DepositErr(a, d) = "" => radix_vault + a <= MaxVault
          /\ deposit(NoBadge, a, d)
    \/ \E b \in Badges : withdrawal_all(b)
    \/ \E in \in ReinitInputs :
          /\ ReinitTicketErr(in[1], in[2]) = "" => radix_vault + ReinitPrice <= MaxVault
          /\ reinit_ticket(NoBadge, in[1], in[2])
    \/ \E b \in Badges : FirstMint /\ admin_ticket(b)
    \/ \E d \in PayBuckets : FirstMint /\ buy_ticket(NoBadge, d)
    \/ \E p \in TicketProofs \cup BadProofs : redeem_prize(NoBadge, p)
    \/ \E p \in TicketProofs \cup BadProofs, r1 \in SpecDraws, r2 \in SpecDraws :
          /\ PlayRoundErr(p) # "" => r1 = 0 /\ r2 = 0
          /\ play_round(NoBadge, p, r1, r2)
    \/ \E d \in NftBuckets : burn_ticket(NoBadge, d)

Spec == Init /\ [][Next]_vars

----------------------------------------------------------------------------
(* SpecRound: the first ticket under every pair of draws, with a vault     *)
(* that stays below the prize                                              *)

NextRound ==
    \/ \E a \in DepositAmounts, d \in DepositBuckets :
          /\ DepositErr(a, d) = "" => radix_vault + a <= MaxRoundVault
          /\ deposit(NoBadge, a, d)
    \/ \E b \in Badges : withdrawal_all(b)
    \/ \E p \in TicketProofs :
          /\ ReinitTicketErr(p, XrdBucket(ReinitPrice)) = ""
                => radix_vault + ReinitPrice <= MaxRoundVault
          /\ reinit_ticket(NoBadge, p, XrdBucket(ReinitPrice))
    \/ FirstMint /\ admin_ticket(AdminBadge)
    \/ FirstMint /\ buy_ticket(NoBadge, XrdBucket(TicketPrice))
    \/ \E p \in TicketProofs : redeem_prize(NoBadge, p)
    \/ \E p \in TicketProofs \cup {Proof(OtherResource, {0})},
          r1 \in Randoms, r2 \in Randoms :
          /\ PlayRoundErr(p) # "" => r1 = 0 /\ r2 = 0
          /\ play_round(NoBadge, p, r1, r2)
    \/ \E p \in TicketProofs : burn_ticket(NoBadge, NftBucket(p.res, p.ids))

SpecRound == Init /\ [][NextRound]_vars

----------------------------------------------------------------------------
(* SpecMint: many mints and burns, the id counter wrapping                 *)

NextMint ==
    \/ \E b \in Badges :
          /\ Cardinality(DOMAIN tickets) < MaxLive
          /\ admin_ticket(b)
    \/ \E d \in PayBuckets :
          /\ Cardinality(DOMAIN tickets) < MaxLive
          /\ BuyTicketErr(d) = "" => radix_vault + TicketPrice <= MaxVault
          /\ buy_ticket(NoBadge, d)
    \/ \E d \in NftBuckets : burn_ticket(NoBadge, d)
    \/ \E b \in Badges : withdrawal_all(b)

SpecMint == Init /\ [][NextMint]_vars

----------------------------------------------------------------------------
(* SpecDice: the three die methods called from outside                     *)

NextDice ==
    \/ \E b \in Badges, r \in DiceRandoms : roll_dice_call(b, r)
    \/ \E b \in Badges, r \in DiceRandoms : roll_dice_old(b, r)
    \/ \E b \in Badges, r1 \in DiceRandoms, r2 \in DiceRandoms :
          \/ roll_dice_alt(b, <<r1>>)
          \/ roll_dice_alt(b, <<r1, r2>>)

SpecDice == Init /\ [][NextDice]_vars

----------------------------------------------------------------------------
(* SpecPair: two tickets side by side, each called with proofs of itself,  *)
(* of the other, of both and of another resource                           *)

\* the draws of SpecPair: both dice are 6, a tie that lifts the level by 2
PairDraws == {5}

\* SpecPair follows the first two tickets
PairMint == nrNFTsgenerated \in {0, 1}

NextPair ==
    \/ /\ radix_vault + redeem_amount <= MaxVault
       /\ deposit(NoBadge, redeem_amount, XrdBucket(redeem_amount + TicketPrice))
    \/ withdrawal_all(AdminBadge)
    \/ \E p \in TicketProofs \cup BadProofs :
          /\ ReinitTicketErr(p, XrdBucket(ReinitPrice)) = ""
                => radix_vault + ReinitPrice <= MaxVault
          /\ reinit_ticket(NoBadge, p, XrdBucket(ReinitPrice))
    \/ PairMint /\ admin_ticket(AdminBadge)
    \/ \E p \in TicketProofs \cup BadProofs : redeem_prize(NoBadge, p)
    \/ \E p \in TicketProofs \cup BadProofs,
          r1 \in PairDraws, r2 \in PairDraws :
          play_round(NoBadge, p, r1, r2)

SpecPair == Init /\ [][NextPair]_vars

----------------------------------------------------------------------------

(* SpecAccess: every method called from outside, by a caller with and by   *)
(* a caller without the admin badge                                        *)

NextAccess ==
    \/ \E b \in Badges :
          /\ radix_vault + redeem_amount <= MaxVault
          /\ deposit(b, redeem_amount, XrdBucket(redeem_amount + TicketPrice))
    \/ \E b \in Badges : withdrawal_all(b)
    \/ \E b \in Badges, p \in TicketProofs :
          /\ ReinitTicketErr(p, XrdBucket(ReinitPrice)) = ""
                => radix_vault + ReinitPrice <= MaxVault
          /\ reinit_ticket(b, p, XrdBucket(ReinitPrice))
    \/ \E b \in Badges : FirstMint /\ admin_ticket(b)
    \/ \E b \in Badges :
          /\ FirstMint
          /\ radix_vault + TicketPrice <= MaxVault
          /\ buy_ticket(b, XrdBucket(TicketPrice))
    \/ \E b \in Badges, p \in TicketProofs : redeem_prize(b, p)
    \/ \E b \in Badges, p \in TicketProofs, r1 \in PairDraws, r2 \in PairDraws :
          play_round(b, p, r1, r2)
    \/ \E b \in Badges, p \in TicketProofs :
          burn_ticket(b, NftBucket(p.res, p.ids))
    \/ \E b \in Badges, r \in Randoms : roll_dice_call(b, r)
    \/ \E b \in Badges, r \in Randoms : roll_dice_old(b, r)
    \/ \E b \in Badges, r \in Randoms : roll_dice_alt(b, <<r>>)

SpecAccess == Init /\ [][NextAccess]_vars

----------------------------------------------------------------------------

(* Properties *)

\* the step is a call of method op
Called(op) == last'.op = op

\* the step is a call of method op presenting a proof of exactly one
\* ticket of the ticket resource
CalledWithTicket(op) ==
    /\ last'.op = op
    /\ ValidProof(last'.proof)
    /\ ProofAmount(last'.proof) = 1

\* the ticket that the proof of the step's call names
CalledId == LocalId(last'.proof)

\* the step is a successful mint
Minted == last'.op \in {"admin_ticket", "buy_ticket"} /\ last'.ok

\* the fields of a last_throw written by play_round
HouseOf(throw) == throw[2]
PlayerOf(throw) == throw[4]

\* C1: every existing ticket has a level from 0 to 25, in every reachable
\* state.
C1_LevelInRange ==
    \A i \in DOMAIN tickets : tickets[i].level \in 0 .. 25

\* a round has just lifted a ticket to the top level with the largest
\* possible difference of the dice
C1_Witness ==
    /\ last.op = "play_round" /\ last.ok
    /\ \E i \in DOMAIN tickets :
          /\ tickets[i].level = 25
          /\ tickets[i].last_throw = ThrowString(1, 6, 25, 5)

\* C2: a play_round call with a valid proof of one ticket is rejected
\* exactly when the ticket's level is 0 or 25, and a rejected call leaves
\* the ticket, the vault balance and the id counter as they were.
C2_PlayRejectedIffBoundary ==
    [][CalledWithTicket("play_round") =>
          /\ ~last'.ok <=> tickets[CalledId].level \in {0, 25}
          /\ ~last'.ok =>
                /\ tickets'[CalledId] = tickets[CalledId]
                /\ radix_vault' = radix_vault
                /\ nrNFTsgenerated' = nrNFTsgenerated]_vars

\* a play_round call on a ticket at level 25 was rejected
C2_Witness ==
    /\ last.op = "play_round" /\ ~last.ok
    /\ ValidProof(last.proof) /\ ProofAmount(last.proof) = 1
    /\ tickets[LocalId(last.proof)].level = 25

\* C3 as stated: a redeem_prize call with a valid proof of one ticket
\* succeeds exactly when the ticket's level is 25, whatever the vault
\* holds; after success the level is 0 and the vault holds 5 less.
C3_RedeemIffLevel25 ==
    [][CalledWithTicket("redeem_prize") =>
          /\ last'.ok <=> tickets[CalledId].level = 25
          /\ last'.ok =>
                /\ tickets'[CalledId].level = 0
                /\ radix_vault' = radix_vault - 50]_vars

\* C3 amended: a redeem_prize call with a valid proof of one ticket
\* succeeds exactly when the ticket's level is 25 and the vault holds at
\* least 5; after success the level is 0 and the vault holds exactly 5 less.
C3_RedeemIffLevel25AndFunded ==
    [][CalledWithTicket("redeem_prize") =>
          /\ last'.ok <=> (tickets[CalledId].level = 25 /\ radix_vault >= 50)
          /\ last'.ok =>
                /\ tickets'[CalledId].level = 0
                /\ radix_vault' = radix_vault - 50
                /\ last'.ret = <<XrdBucket(50)>>]_vars

\* a prize was just paid from a vault that held more than one prize
C3_Witness ==
    /\ last.op = "redeem_prize" /\ last.ok
    /\ tickets[LocalId(last.proof)].level = 0
    /\ radix_vault > 0

\* C4 as stated: a reinit_ticket call with a valid proof of one ticket and
\* a payment in XRD succeeds exactly when the ticket's level is 0,
\* whatever the payment; after success the level is 10, the vault holds
\* 0.9 more and the payment less 0.9 is returned.
C4_ReinitIffLevel0 ==
    [][CalledWithTicket("reinit_ticket") /\ last'.bucket.res = RADIX_TOKEN =>
          /\ last'.ok <=> tickets[CalledId].level = 0
          /\ last'.ok =>
                /\ tickets'[CalledId].level = 10
                /\ radix_vault' = radix_vault + 9
                /\ last'.ret = <<XrdBucket(last'.bucket.amt - 9)>>]_vars

\* C4 amended: such a call succeeds exactly when the ticket's level is 0
\* and the payment is at least 0.9; after success the level is 10, the
\* vault holds 0.9 more and the payment less 0.9 is returned.
C4_ReinitIffLevel0AndPaid ==
    [][CalledWithTicket("reinit_ticket") /\ last'.bucket.res = RADIX_TOKEN =>
          /\ last'.ok <=> (tickets[CalledId].level = 0 /\ last'.bucket.amt >= 9)
          /\ last'.ok =>
                /\ tickets'[CalledId].level = 10
                /\ radix_vault' = radix_vault + 9
                /\ last'.ret = <<XrdBucket(last'.bucket.amt - 9)>>]_vars

\* a ticket was just reinitialised with a payment of 1.5, 0.6 came back
C4_Witness ==
    /\ last.op = "reinit_ticket" /\ last.ok
    /\ last.bucket = XrdBucket(15)
    /\ last.ret = <<XrdBucket(6)>>
    /\ tickets[LocalId(last.proof)].level = 10

\* C5: each die of a successful play_round is the die that rejection
\* sampling (the scan of roll_dice_alt) gives for the same draw, on every
\* draw for which the scan gives a die.
C5_DiceByRejectionSampling ==
    last.op = "play_round" /\ last.ok =>
        LET throw == tickets[LocalId(last.proof)].last_throw
        IN  /\ ScanDraw(last.draws[1]) # 0 =>
                  HouseOf(throw) = ScanDraw(last.draws[1])
            /\ ScanDraw(last.draws[2]) # 0 =>
                  PlayerOf(throw) = ScanDraw(last.draws[2])

\* C6: a successful play_round on a ticket at level L in 1..24 with the
\* dice house and player in 1..6 sets the level to L + delta kept within
\* 0..25, where delta is player - house, or player - 4 on a tie.
C6_RoundResult ==
    [][Called("play_round") /\ last'.ok =>
          LET L == tickets[CalledId].level
              house == HouseOf(tickets'[CalledId].last_throw)
              player == PlayerOf(tickets'[CalledId].last_throw)
              delta == IF house = player THEN player - 4 ELSE player - house
              sum == L + delta
          IN  /\ L \in 1 .. 24
              /\ house \in 1 .. 6
              /\ player \in 1 .. 6
              /\ tickets'[CalledId].level =
                    IF sum < 0 THEN 0 ELSE IF sum > 25 THEN 25 ELSE sum]_vars

\* a tie of two sixes has just lifted a ticket from 24 to the top level
C6_Witness ==
    /\ last.op = "play_round" /\ last.ok
    /\ tickets[LocalId(last.proof)].last_throw = ThrowString(6, 6, 25, 2)

\* C7: deposit with a bucket of XRD fails and leaves the vault as it was
\* when the bucket holds no more than the amount; otherwise it adds
\* exactly the amount to the vault and returns the rest of the bucket.
C7_DepositStrict ==
    [][Called("deposit") /\ last'.bucket.res = RADIX_TOKEN =>
          IF last'.bucket.amt <= last'.amount
          THEN ~last'.ok /\ radix_vault' = radix_vault
          ELSE /\ last'.ok
               /\ radix_vault' = radix_vault + last'.amount
               /\ last'.ret = <<XrdBucket(last'.bucket.amt - last'.amount)>>]_vars

\* a deposit whose bucket held exactly the amount was rejected
C7_Witness ==
    /\ last.op = "deposit" /\ ~last.ok
    /\ last.bucket = XrdBucket(last.amount)

\* C8: buy_ticket with a payment p in XRD fails when p < 1 and succeeds
\* when p >= 1; on success there is one new ticket, at level 10, the
\* vault holds exactly 1 more and the change is p - 1.
C8_BuyTicket ==
    [][Called("buy_ticket") /\ last'.bucket.res = RADIX_TOKEN =>
          /\ last'.ok <=> last'.bucket.amt >= 10
          /\ last'.ok =>
                /\ \E i \in DOMAIN tickets' \ DOMAIN tickets :
                      /\ DOMAIN tickets' = DOMAIN tickets \cup {i}
                      /\ tickets'[i].level = 10
                      /\ last'.ret[1] = NftBucket(my_non_fungible_ticket, {i})
                /\ radix_vault' = radix_vault + 10
                /\ last'.ret[2] = XrdBucket(last'.bucket.amt - 10)]_vars

\* C9: withdrawal_all and admin_ticket fail without the admin badge and
\* change nothing; a step of a caller without the badge lowers the vault
\* only by a prize paid by redeem_prize, and brings a ticket into
\* existence only through buy_ticket with 1 paid into the vault.
C9_AdminOnly ==
    [][last'.badge # AdminBadge =>
          /\ last'.op \in {"withdrawal_all", "admin_ticket"} =>
                /\ ~last'.ok
                /\ last'.err = "Unauthorized"
                /\ radix_vault' = radix_vault
                /\ tickets' = tickets
                /\ nrNFTsgenerated' = nrNFTsgenerated
          /\ radix_vault' < radix_vault =>
                /\ last'.op = "redeem_prize"
                /\ radix_vault' = radix_vault - 50
          /\ DOMAIN tickets' \ DOMAIN tickets # {} =>
                /\ last'.op = "buy_ticket"
                /\ last'.bucket.amt >= 10
                /\ radix_vault' = radix_vault + 10]_vars

\* a caller without the badge called withdrawal_all on a vault that holds
\* XRD, and the XRD is still there
C9_Witness ==
    /\ last.op = "withdrawal_all" /\ last.badge = NoBadge /\ ~last.ok
    /\ radix_vault > 0

\* C10: every mint assigns an id greater than every id assigned before,
\* so no id is assigned twice.
C10_IdsIncrease ==
    [][Minted => \A j \in issued : nrNFTsgenerated' > j]_vars

\* C11: a ticket's level changes in a step only by one of: a mint creating
\* it at 10, a successful play_round taking it from 1..24 to a level of
\* 0..25, a successful redeem_prize taking it from 25 to 0, a successful
\* reinit_ticket taking it from 0 to 10.  So play_round never changes a
\* ticket at 0 or 25, reinit_ticket and redeem_prize never change a ticket
\* at 1..24, and a ticket leaves level 25 only through redeem_prize.
C11_LevelTransitions ==
    [][/\ \A i \in DOMAIN tickets' \ DOMAIN tickets :
             Minted /\ tickets'[i].level = 10
       /\ \A i \in DOMAIN tickets \cap DOMAIN tickets' :
             /\ tickets'[i].level # tickets[i].level =>
                   \/ /\ last'.op = "play_round" /\ last'.ok
                      /\ tickets[i].level \in 1 .. 24
                      /\ tickets'[i].level \in 0 .. 25
                   \/ /\ last'.op = "redeem_prize" /\ last'.ok
                      /\ tickets[i].level = 25 /\ tickets'[i].level = 0
                   \/ /\ last'.op = "reinit_ticket" /\ last'.ok
                      /\ tickets[i].level = 0 /\ tickets'[i].level = 10
             /\ last'.op = "play_round" /\ tickets[i].level \in {0, 25}
                   => tickets'[i] = tickets[i]
             /\ last'.op \in {"reinit_ticket", "redeem_prize"}
                   /\ tickets[i].level \in 1 .. 24
                   => tickets'[i] = tickets[i]
             /\ tickets[i].level = 25 /\ tickets'[i].level # 25
                   => last'.op = "redeem_prize"]_vars

\* a ticket that was paid its prize and reinitialised has played again and
\* has now lost down to level 1
C11_Witness ==
    /\ last.op = "play_round" /\ last.ok
    /\ \E i \in DOMAIN tickets :
          /\ tickets[i].level = 1
          /\ tickets[i].last_throw = ThrowString(6, 1, 1, -5)
    /\ radix_vault = 9

\* C12: the vault balance is never negative and no call takes out more
\* than the vault holds; however redeem_prize calls on two level-25
\* tickets interleave with deposits and withdrawal_all, a redeem_prize
\* call made while the vault holds less than 5 fails and changes neither
\* a ticket (the presented one stays at 25) nor the vault.
C12_VaultNeverOverdrawn ==
    [][/\ radix_vault >= 0 /\ radix_vault' >= 0
       /\ last'.ok /\ last'.op \in {"redeem_prize", "withdrawal_all"}
             => last'.ret[1].amt <= radix_vault
       /\ last'.op = "redeem_prize" /\ radix_vault < 50
             => /\ ~last'.ok
                /\ tickets' = tickets
                /\ radix_vault' = radix_vault]_vars

\* of two tickets at level 25 the first was paid, the second was refused
\* with the vault holding less than a prize and is still at level 25
C12_Witness ==
    /\ last.op = "redeem_prize" /\ ~last.ok
    /\ last.err = "Not enough funds in the vault to pay prize money"
    /\ last.proof = Proof(my_non_fungible_ticket, {2})
    /\ DOMAIN tickets = {1, 2}
    /\ tickets[1].last_throw = <<"Just redeemed a level 25 Ticket">>
    /\ tickets[2].level = 25
    /\ radix_vault < 50

\* the die that a scan of the consecutive 3-bit groups of r gives, from the
\* low end, over n groups: v + 1 for the first group with v in 0..5, and 0
\* when every one of the n groups is 6 or 7
RECURSIVE ConsecutiveGroupsDie(_, _)
ConsecutiveGroupsDie(r, n) ==
    IF n = 0
    THEN 0
    ELSE IF r % 8 < 6
         THEN (r % 8) + 1
         ELSE ConsecutiveGroupsDie(r \div 8, n - 1)

\* C13: roll_dice_alt returns, for the draw it ends on, v + 1 for the first
\* of the draw's consecutive 3-bit groups (from the low end) whose value v
\* is in 0..5; every draw it passed over for a fresh one has 6 or 7 in
\* every 3-bit group; and the value returned is in 1..6.
C13_ScanConsecutiveGroups ==
    last.op = "roll_dice_alt" /\ last.ok =>
        /\ \A k \in 1 .. (Len(last.draws) - 1) :
              ConsecutiveGroupsDie(last.draws[k], DrawWidth \div 3) = 0
        /\ last.ret[1] =
              ConsecutiveGroupsDie(last.draws[Len(last.draws)], DrawWidth \div 3)
        /\ last.ret[1] \in 1 .. 6

\* C14: an external call of roll_dice is rejected for every caller, the
\* holder of the admin badge included, while play_round, whoever calls it,
\* gets both of its dice from roll_dice; a call of admin_ticket or
\* withdrawal_all passes the access rules exactly when the caller holds the
\* admin badge; a call of any other method passes them for every caller.
C14_AccessPartition ==
    /\ last.op = "roll_dice" => ~last.ok /\ last.err = "Unauthorized"
    /\ last.op = "play_round" /\ last.ok =>
          /\ HouseOf(tickets[LocalId(last.proof)].last_throw)
                = roll_dice(last.draws[1])
          /\ PlayerOf(tickets[LocalId(last.proof)].last_throw)
                = roll_dice(last.draws[2])
    /\ last.op \in {"admin_ticket", "withdrawal_all"} =>
          (last.err # "Unauthorized" <=> last.badge = AdminBadge)
    /\ last.op \in {"buy_ticket", "deposit", "reinit_ticket", "redeem_prize",
                    "play_round", "burn_ticket", "roll_dice_old",
                    "roll_dice_alt"} =>
          last.err # "Unauthorized"

\* the holder of the admin badge has called roll_dice and was rejected,
\* with a ticket in play
C14_Witness ==
    /\ last.op = "roll_dice" /\ last.badge = AdminBadge /\ ~last.ok
    /\ \E i \in DOMAIN tickets : tickets[i].level = 12

\* C15: burn_ticket fails unless its bucket holds exactly one token of the
\* ticket resource; when it succeeds the presented ticket's record is gone,
\* whatever its level; and an id that was issued and burned never exists
\* again, so no later mint recreates it and no later call acts on it.
C15_BurnedIdNeverAgain ==
    [][/\ last'.op = "burn_ticket" =>
             /\ last'.ok <=> (/\ last'.bucket.res = my_non_fungible_ticket
                              /\ last'.bucket.amt = 1)
             /\ last'.ok => \A i \in last'.bucket.ids : i \notin DOMAIN tickets'
       /\ \A i \in issued \ DOMAIN tickets : i \notin DOMAIN tickets']_vars

\* C16: the level or the last_throw of a ticket T changes in a step only
\* if the step is a successful play_round, reinit_ticket or redeem_prize
\* whose proof is of the ticket resource and holds exactly T; a call with a
\* proof of another ticket, of another resource or of two tickets never
\* changes T.
C16_OnlyProvenTicketChanges ==
    [][\A i \in DOMAIN tickets \cap DOMAIN tickets' :
          tickets'[i] # tickets[i] =>
             /\ last'.op \in {"play_round", "reinit_ticket", "redeem_prize"}
             /\ last'.ok
             /\ last'.proof = Proof(my_non_fungible_ticket, {i})]_vars

\* the second ticket has just played its first round while the first
\* ticket, reinitialised after its prize, stayed as it was
C16_Witness ==
    /\ last.op = "play_round" /\ last.ok
    /\ last.proof = Proof(my_non_fungible_ticket, {2})
    /\ DOMAIN tickets = {1, 2}
    /\ tickets[2] = [level |-> 12, last_throw |-> ThrowString(6, 6, 12, 2)]
    /\ tickets[1] = [level |-> 10,
                     last_throw |-> <<"Just reinitialized the Ticket">>]

\* C17 as stated: a successful play_round in which the house die equals
\* the player die never leaves the ticket's level as it was.
C17_TieChangesLevel ==
    [][/\ CalledWithTicket("play_round") /\ last'.ok
       /\ HouseOf(tickets'[CalledId].last_throw)
             = PlayerOf(tickets'[CalledId].last_throw)
       => tickets'[CalledId].level # tickets[CalledId].level]_vars

\* C17 amended: a successful play_round in which the house die equals the
\* player die leaves the ticket's level as it was exactly when both dice
\* are 4; for every level in 1..24 and every other tied value the level
\* after the round differs from the level before it.
C17_TieChangesLevelUnlessFours ==
    [][/\ CalledWithTicket("play_round") /\ last'.ok
       /\ HouseOf(tickets'[CalledId].last_throw)
             = PlayerOf(tickets'[CalledId].last_throw)
       => (tickets'[CalledId].level = tickets[CalledId].level
             <=> PlayerOf(tickets'[CalledId].last_throw) = 4)]_vars

\* a ticket at level 24 has just played a round of tied fours and is
\* still at level 24
C17_Witness ==
    /\ last.op = "play_round" /\ last.ok
    /\ tickets[LocalId(last.proof)] =
          [level |-> 24, last_throw |-> ThrowString(4, 4, 24, 0)]

\* C18: value is conserved.  The vault starts empty and every step moves
\* its balance by exactly the contribution of the step's call: a successful
\* deposit adds its amount, a successful buy_ticket 1, a successful
\* reinit_ticket 0.9, a successful redeem_prize takes 5, a successful
\* withdrawal_all takes what it returns; play_round, admin_ticket,
\* burn_ticket and every failed call contribute nothing.  So the balance is
\* always deposits + 1 x buys + 0.9 x reinits - 5 x redeems - withdrawals.
C18_ValueConserved ==
    /\ radix_vault = 0
    /\ [][radix_vault' - radix_vault =
             IF ~last'.ok THEN 0
             ELSE CASE last'.op = "deposit" -> last'.amount
                    [] last'.op = "buy_ticket" -> 10
                    [] last'.op = "reinit_ticket" -> 9
                    [] last'.op = "redeem_prize" -> -50
                    [] last'.op = "withdrawal_all" -> -(last'.ret[1].amt)
                    [] OTHER -> 0]_vars

\* the admin has just withdrawn 1.9: the price of a ticket that was bought
\* and of its reinitialisation
C18_Witness ==
    /\ last.op = "withdrawal_all" /\ last.ok
    /\ last.ret = <<XrdBucket(19)>>
    /\ radix_vault = 0
    /\ \E i \in DOMAIN tickets :
          tickets[i].last_throw = <<"Just reinitialized the Ticket">>

\* the step is a successful call of method op with a proof of ticket i
ActedOn(op, i) ==
    /\ last'.op = op /\ last'.ok
    /\ last'.proof = Proof(my_non_fungible_ticket, {i})

\* C19: a ticket is not paid twice for one climb.  The last_throw of a
\* ticket names the last call that changed it; a redeem_prize succeeds only
\* on a ticket whose last change was a play_round and marks it as redeemed;
\* the next change of a redeemed ticket is a successful reinit_ticket on
\* it, which pays 0.9 into the vault; and the next change of a
\* reinitialised ticket is a successful play_round on it.  So between two
\* successful redeems of a ticket lie a successful reinit and then a
\* successful round, and its redeems never exceed 1 + its reinits.
C19_NoDoublePayout ==
    [][\A i \in DOMAIN tickets \cap DOMAIN tickets' :
          /\ ActedOn("redeem_prize", i) =>
                /\ Len(tickets[i].last_throw) = Len(ThrowString(0, 0, 0, 0))
                /\ tickets'[i].last_throw = <<"Just redeemed a level 25 Ticket">>
          /\ /\ tickets[i].last_throw = <<"Just redeemed a level 25 Ticket">>
             /\ tickets'[i] # tickets[i]
             => /\ ActedOn("reinit_ticket", i)
                /\ radix_vault' = radix_vault + 9
                /\ tickets'[i].last_throw = <<"Just reinitialized the Ticket">>
          /\ /\ tickets[i].last_throw = <<"Just reinitialized the Ticket">>
             /\ tickets'[i] # tickets[i]
             => /\ ActedOn("play_round", i)
                /\ Len(tickets'[i].last_throw) = Len(ThrowString(0, 0, 0, 0))]_vars

\* a prize was just paid and 0.9 is left in the vault, as after a first
\* prize, a reinitialisation, a second climb and a deposit of 5
C19_Witness ==
    /\ last.op = "redeem_prize" /\ last.ok
    /\ radix_vault = 9
    /\ tickets[LocalId(last.proof)] =
          [level |-> 0, last_throw |-> <<"Just redeemed a level 25 Ticket">>]

\* C20: a successful play_round, reinit_ticket or redeem_prize on ticket T
\* leaves unchanged the id counter, the set of ticket ids and the level and
\* last_throw of every other ticket; a successful play_round leaves the
\* vault balance unchanged as well.
C20_Frame ==
    [][\A i \in DOMAIN tickets :
          \A op \in {"play_round", "reinit_ticket", "redeem_prize"} :
             ActedOn(op, i) =>
                /\ nrNFTsgenerated' = nrNFTsgenerated
                /\ DOMAIN tickets' = DOMAIN tickets
                /\ \A j \in DOMAIN tickets \ {i} : tickets'[j] = tickets[j]
                /\ op = "play_round" => radix_vault' = radix_vault]_vars

\* the first ticket has just played a round with 5 in the vault, while the
\* second ticket is further up
C20_Witness ==
    /\ last.op = "play_round" /\ last.ok
    /\ last.proof = Proof(my_non_fungible_ticket, {1})
    /\ DOMAIN tickets = {1, 2}
    /\ tickets[1].level = 14
    /\ tickets[2].level = 18
    /\ radix_vault = 50

====
